---- MODULE Spec2Model ----
(***************************************************************************)
(* Opening Range Breakout bot: the snapshot builder (fetch_ohlc.py), the   *)
(* signal evaluator (signal_generator.py), the cycle with its three files  *)
(* (main.py), the notifier (notifier.py) and the history merge             *)
(* (merge-backtests.py).                                                   *)
(*                                                                         *)
(* Prices are integers (one unit = one price tick); a percentage test      *)
(* ((c - p) / p) * 100 >= 2 is computed exactly as (c - p) * 100 >= 2 * p  *)
(* for p > 0.  A Python None (and a pandas NaN / empty CSV cell) is the    *)
(* empty tuple << >>, a present value v is << v >>.  Times of day are      *)
(* minutes after midnight IST (09:15 = 555).  Dates are day numbers.       *)
(*                                                                         *)
(* The price feed is external and the code validates nothing it returns,   *)
(* so bars are drawn without assuming Low <= Close <= High.                *)
(***************************************************************************)
EXTENDS Integers, Sequences, FiniteSets, TLC

VARIABLES day, now, cacheFile, sentFile, histFile, delivered, fallbackFile, cycle,
          evalRow, evalLog, orData, orResult, mergeLog, tradeFile, forward, report, isoIn,
          inFlight

vars == <<day, now, cacheFile, sentFile, histFile, delivered, fallbackFile, cycle,
          evalRow, evalLog, orData, orResult, mergeLog, tradeFile, forward, report, isoIn,
          inFlight>>

mainVars == <<day, now, cacheFile, sentFile, histFile, delivered, fallbackFile, cycle>>

-----------------------------------------------------------------------------
(* Bounds of the model *)

MaxDay == 2
MaxEvals == 2
MaxBars == 2
MaxSent == 2
MaxArtifacts == 2
MaxTrades == 2

(* Program constants *)

WindowStart == 555
WindowEnd == 570
MarketOpen == 570
FetchEnd == 575
MarketClose == 930
ThresholdPct == 2
StrikeStep == 50

-----------------------------------------------------------------------------
(* Python values *)

None == << >>

Some(v) == << v >>

IsNone(x) == x = << >>

Val(x) == x[1]

\* dict.get(key): the value under key, None when the key is absent
Get(d, k) == IF k \in DOMAIN d THEN Some(d[k]) ELSE None

\* Python truthiness of an optional number: None and 0 are false
Falsy(x) == IsNone(x) \/ Val(x) = 0

\* round(n / d) for d > 0: Python rounds halves to the even neighbour
RoundHalfEven(n, d) ==
    LET q == n \div d
        r == n % d
    IN  IF 2 * r < d THEN q
        ELSE IF 2 * r > d THEN q + 1
        ELSE IF q % 2 = 0 THEN q ELSE q + 1

RECURSIVE SeqMax(_)
SeqMax(s) ==
    IF Len(s) = 1 THEN s[1]
    ELSE LET m == SeqMax(Tail(s)) IN IF s[1] >= m THEN s[1] ELSE m

RECURSIVE SeqMin(_)
SeqMin(s) ==
    IF Len(s) = 1 THEN s[1]
    ELSE LET m == SeqMin(Tail(s)) IN IF s[1] <= m THEN s[1] ELSE m

\* the sequence f(s[1]), ..., f(s[n])
MapSeq(s, f(_)) == [i \in 1..Len(s) |-> f(s[i])]

\* concatenation of a sequence of tuples
RECURSIVE Flatten(_)
Flatten(ss) == IF ss = << >> THEN << >> ELSE ss[1] \o Flatten(Tail(ss))

FlatMap(s, f(_)) == Flatten(MapSeq(s, f))

SeqRange(s) == {s[i] : i \in 1..Len(s)}

-----------------------------------------------------------------------------
(* fetch_ohlc.py *)

\* A feed response is [ok, bars]: ok = FALSE is a raised exception, bars = << >> an
\* empty frame.  Bars come in ascending time order.

\* the snapshot of a non-empty window
window_ohlc(symbol, window) ==
    LET High(b) == b.high
        Low(b) == b.low
    IN  [symbol |-> symbol,
         open |-> window[1].open,
         high |-> SeqMax(MapSeq(window, High)),
         low |-> SeqMin(MapSeq(window, Low)),
         close |-> window[Len(window)].close,
         ORH |-> SeqMax(MapSeq(window, High)),
         ORL |-> SeqMin(MapSeq(window, Low))]

\* a mask that lets the 09:30 bar in
window_mask_inclusive(bars) ==
    LET InWindow(b) == b.t >= WindowStart /\ b.t <= WindowEnd
    IN  SelectSeq(bars, InWindow)

\* the bars whose time is in [09:15, 09:30)
window_mask(bars) ==
    LET InWindow(b) == b.t >= WindowStart /\ b.t < WindowEnd
    IN  SelectSeq(bars, InWindow)

get_opening_range(symbol, resp) ==
    IF ~resp.ok \/ resp.bars = << >> THEN None
    ELSE IF window_mask(resp.bars) = << >> THEN None
    ELSE Some(window_ohlc(symbol, window_mask(resp.bars)))

check_breakout(symbol, ORH, ORL, resp) ==
    IF ~resp.ok \/ resp.bars = << >> THEN None
    ELSE LET last == resp.bars[Len(resp.bars)]
         IN  Some([symbol |-> symbol,
                   last_close |-> last.close,
                   signal |-> IF last.close > ORH THEN "BREAKOUT"
                              ELSE IF last.close < ORL THEN "BREAKDOWN"
                              ELSE "Inside Range",
                   time |-> last.t])

\* row.update(brk): the keys of brk are added to (or replace) those of row
DictUpdate(row, brk) ==
    [k \in DOMAIN row \cup DOMAIN brk |-> IF k \in DOMAIN brk THEN brk[k] ELSE row[k]]

\* one pass of fetch_all's loop: the rows the symbol adds to the results
fetch_one(row, brk) ==
    IF IsNone(row) THEN << >>
    ELSE IF IsNone(brk) THEN << >>
    ELSE << DictUpdate(Val(row), Val(brk)) >>

\* check_breakout is called only for a symbol that has a snapshot
breakout_of(sym, row, resp5) ==
    IF IsNone(row) THEN None ELSE check_breakout(sym, Val(row).ORH, Val(row).ORL, resp5)

fetch_all(symbols, feed1m, feed5m) ==
    LET One(sym) ==
            fetch_one(get_opening_range(sym, feed1m[sym]),
                      breakout_of(sym, get_opening_range(sym, feed1m[sym]), feed5m[sym]))
    IN  FlatMap(symbols, One)

-----------------------------------------------------------------------------
(* signal_generator.py *)

\* The daily feed response is [ok, closes]: the daily closes, oldest first.

prev_day_close(resp) ==
    IF ~resp.ok THEN None
    ELSE IF Len(resp.closes) >= 2 THEN Some(resp.closes[Len(resp.closes) - 1])
    ELSE IF Len(resp.closes) = 1 THEN Some(resp.closes[Len(resp.closes)])
    ELSE None

\* ((c - prev_close) / prev_close) * 100 >= 2, for prev_close > 0
PctAtLeast(c, p) == (c - p) * 100 >= ThresholdPct * p

\* ((c - prev_close) / prev_close) * 100 <= -2, for prev_close > 0
PctAtMost(c, p) == (c - p) * 100 <= (0 - ThresholdPct) * p

\* round(pct_change, 2), in hundredths of a percent
PctChange(c, p) == RoundHalfEven((c - p) * 10000, p)

\* a decision that takes a close on the boundary as a break
Direction_inclusive(c, h, l, p) ==
    IF c >= h /\ PctAtLeast(c, p) THEN "BUY"
    ELSE IF c <= l /\ PctAtMost(c, p) THEN "SELL"
    ELSE "HOLD"

Direction(c, h, l, p) ==
    IF c > h /\ PctAtLeast(c, p) THEN "BUY"
    ELSE IF c < l /\ PctAtMost(c, p) THEN "SELL"
    ELSE "HOLD"

\* make_signal once prev_day_close has answered
signal_of(ohlc_row, prev_close) ==
    IF Falsy(prev_close) THEN None
    ELSE Some([symbol |-> ohlc_row.symbol,
               open |-> ohlc_row.open,
               high |-> ohlc_row.high,
               low |-> ohlc_row.low,
               close |-> ohlc_row.close,
               prev_close |-> Val(prev_close),
               pct_change |-> PctChange(ohlc_row.close, Val(prev_close)),
               signal |-> Direction(ohlc_row.close, ohlc_row.high, ohlc_row.low,
                                    Val(prev_close))])

make_signal(ohlc_row, daily) == signal_of(ohlc_row, prev_day_close(daily))

get_option_trade(symbol, direction, close_price) ==
    [symbol |-> symbol,
     direction |-> direction,
     underlying_price |-> close_price,
     suggested_action |->
        IF direction = "BUY"
        THEN <<"BUY", symbol, "CALL", RoundHalfEven(close_price, StrikeStep) * StrikeStep>>
        ELSE IF direction = "SELL"
        THEN <<"BUY", symbol, "PUT", RoundHalfEven(close_price, StrikeStep) * StrikeStep>>
        ELSE <<"HOLD">>]

\* one pass of generate_option_signals' loop: the trades the row adds
trade_of(sig) ==
    IF ~IsNone(sig) /\ Val(sig).signal \in {"BUY", "SELL"}
    THEN << DictUpdate(get_option_trade(Val(sig).symbol, Val(sig).signal, Val(sig).close),
                       [pct_change |-> Val(sig).pct_change,
                        prev_close |-> Val(sig).prev_close]) >>
    ELSE << >>

generate_option_signals(ohlc_rows, dailyFeed) ==
    LET One(row) == trade_of(make_signal(row, dailyFeed[row.symbol]))
    IN  FlatMap(ohlc_rows, One)

-----------------------------------------------------------------------------
(* CSV files: an absent file is None, a file is Some([header, rows]); a row is the
   tuple of its cells in the order they were written.  A file of size 0 has no
   header and no rows. *)

EmptyFile == [header |-> << >>, rows |-> << >>]

SizeZero(file) == Val(file).header = << >> /\ Val(file).rows = << >>

\* csv.DictWriter on a file opened in append mode: the header goes in first when the
\* file is absent or of size 0, then one row per entry, cells in fieldnames order
CsvAppend(file, fieldnames, entries) ==
    LET header_needed == IsNone(file) \/ SizeZero(file)
        Cells(e) == [i \in 1..Len(fieldnames) |-> e[fieldnames[i]]]
    IN  IF header_needed
        THEN Some([header |-> fieldnames, rows |-> MapSeq(entries, Cells)])
        ELSE Some([header |-> Val(file).header,
                   rows |-> Val(file).rows \o MapSeq(entries, Cells)])

\* position of a column in a header, 0 when it is not a column
ColIndex(header, col) ==
    IF \E i \in 1..Len(header) : header[i] = col
    THEN CHOOSE i \in 1..Len(header) : header[i] = col /\ \A j \in 1..(i - 1) : header[j] # col
    ELSE 0

\* pandas.read_csv, one cell: a row shorter than the header reads as NaN there
Cell(header, row, col) ==
    LET i == ColIndex(header, col)
    IN  IF i = 0 \/ i > Len(row) THEN None ELSE row[i]

-----------------------------------------------------------------------------
(* main.py *)

SentFields == <<"date", "symbol", "direction", "time">>

HistFields == <<"date", "time", "symbol", "direction", "open", "high", "low",
                "entry_close", "prev_close", "suggested_action">>

InFetchWindow(t) == MarketOpen <= t /\ t <= FetchEnd

InMarketHours(t) == MarketOpen <= t /\ t <= MarketClose

\* the symbols of a list of rows
RowSymbols(rows) == {rows[i].symbol : i \in 1..Len(rows)}

\* rows of fetch_all never carry prev_close, so each is looked up in the daily feed
ensure_prev_close_in_rows(rows, ensureFeed) ==
    LET One(r) ==
            IF "prev_close" \in DOMAIN r /\ ~IsNone(r.prev_close) THEN r
            ELSE DictUpdate(r, [prev_close |-> prev_day_close(ensureFeed[r.symbol])])
    IN  MapSeq(rows, One)

\* the saved cache is today's: it exists, has a first row, and that row's date is today
CacheIsFresh(cache, today) ==
    ~IsNone(cache) /\ Val(cache) # << >> /\ Val(cache)[1].date = today

\* the end of load_opening_df: the rows of fetch_all are completed, dated and saved
save_opening_df(cache, today, rows, ensureFeed) ==
    LET WithDate(r) == DictUpdate(r, [date |-> today])
    IN  IF rows = << >>
        THEN [raised |-> FALSE, df |-> None, refreshed |-> FALSE, file |-> cache]
        ELSE [raised |-> FALSE,
              df |-> Some(MapSeq(ensure_prev_close_in_rows(rows, ensureFeed), WithDate)),
              refreshed |-> TRUE,
              file |-> Some(MapSeq(ensure_prev_close_in_rows(rows, ensureFeed), WithDate))]

\* a loader that fetches again whenever the clock is in the fetch window
load_opening_df_refetch(cache, today, now_t, syms, feed1m, feed5m, ensureFeed) ==
    IF ~InFetchWindow(now_t)
    THEN [raised |-> FALSE,
          df |-> IF CacheIsFresh(cache, today) THEN cache ELSE None,
          refreshed |-> FALSE, file |-> cache]
    ELSE IF ~syms.ok
    THEN [raised |-> TRUE, df |-> None, refreshed |-> FALSE, file |-> cache]
    ELSE IF syms.list = << >>
    THEN [raised |-> FALSE, df |-> None, refreshed |-> FALSE, file |-> cache]
    ELSE save_opening_df(cache, today, fetch_all(syms.list, feed1m, feed5m), ensureFeed)

\* a loader that hands out the saved cache of an earlier day outside the fetch window
load_opening_df_stale(cache, today, now_t, syms, feed1m, feed5m, ensureFeed) ==
    IF CacheIsFresh(cache, today)
    THEN [raised |-> FALSE, df |-> cache, refreshed |-> FALSE, file |-> cache]
    ELSE IF ~InFetchWindow(now_t)
    THEN [raised |-> FALSE, df |-> cache, refreshed |-> FALSE, file |-> cache]
    ELSE IF ~syms.ok
    THEN [raised |-> TRUE, df |-> None, refreshed |-> FALSE, file |-> cache]
    ELSE IF syms.list = << >>
    THEN [raised |-> FALSE, df |-> None, refreshed |-> FALSE, file |-> cache]
    ELSE save_opening_df(cache, today, fetch_all(syms.list, feed1m, feed5m), ensureFeed)

\* Returns [raised, df, refreshed, file]: raised is get_symbols' FileNotFoundError,
\* file the cache file afterwards.
load_opening_df(cache, today, now_t, syms, feed1m, feed5m, ensureFeed) ==
    IF CacheIsFresh(cache, today)
    THEN [raised |-> FALSE, df |-> cache, refreshed |-> FALSE, file |-> cache]
    ELSE IF ~InFetchWindow(now_t)
    THEN [raised |-> FALSE, df |-> None, refreshed |-> FALSE, file |-> cache]
    ELSE IF ~syms.ok
    THEN [raised |-> TRUE, df |-> None, refreshed |-> FALSE, file |-> cache]
    ELSE IF syms.list = << >>
    THEN [raised |-> FALSE, df |-> None, refreshed |-> FALSE, file |-> cache]
    ELSE save_opening_df(cache, today, fetch_all(syms.list, feed1m, feed5m), ensureFeed)

\* the (date, SYMBOL, DIRECTION) of every row of the ledger
sent_keys(h, rows) ==
    {<<Cell(h, rows[i], "date"), Cell(h, rows[i], "symbol"), Cell(h, rows[i], "direction")>> :
        i \in 1..Len(rows)}

\* a loader that never looks at the dates
load_sent_log_any_date(file, today) ==
    IF IsNone(file) THEN [seen |-> {}, file |-> file]
    ELSE [seen |-> sent_keys(Val(file).header, Val(file).rows), file |-> file]

\* a loader that sees nothing in a ledger of a prior day and keeps its rows
load_sent_log_keep_stale(file, today) ==
    IF IsNone(file) THEN [seen |-> {}, file |-> file]
    ELSE IF SizeZero(file) THEN [seen |-> {}, file |-> file]
    ELSE IF Val(file).rows = << >> THEN [seen |-> {}, file |-> file]
    ELSE IF ColIndex(Val(file).header, "date") # 0
            /\ ~\E i \in 1..Len(Val(file).rows) :
                    Cell(Val(file).header, Val(file).rows[i], "date") = today
    THEN [seen |-> {}, file |-> file]
    ELSE [seen |-> sent_keys(Val(file).header, Val(file).rows), file |-> file]

\* Returns [seen, file]: the set of (date, SYMBOL, DIRECTION) and the ledger afterwards.
load_sent_log(file, today) ==
    IF IsNone(file) THEN [seen |-> {}, file |-> file]
    ELSE IF SizeZero(file) THEN [seen |-> {}, file |-> file]
    ELSE IF Val(file).rows = << >> THEN [seen |-> {}, file |-> file]
    ELSE IF ColIndex(Val(file).header, "date") # 0
            /\ ~\E i \in 1..Len(Val(file).rows) :
                    Cell(Val(file).header, Val(file).rows[i], "date") = today
    THEN [seen |-> {}, file |-> Some(EmptyFile)]
    ELSE [seen |-> sent_keys(Val(file).header, Val(file).rows), file |-> file]

append_sent_log(file, entries) == CsvAppend(file, SentFields, entries)

\* a history writer that writes nothing
append_history_skip(file, entries) == file

append_history(file, entries) == CsvAppend(file, HistFields, entries)

\* signals of generate_option_signals carry direction, symbol and a suggested_action
normalize_signals_format(signals) ==
    LET One(s) ==
            IF "signal" \notin DOMAIN s /\ "direction" \in DOMAIN s
            THEN DictUpdate(s, [signal |-> s.direction])
            ELSE s
    IN  MapSeq(signals, One)

\* a key that forgets the direction
SignalKey_any_direction(s, today_str) == <<today_str, s.symbol, "BUY">>

SignalKey(s, today_str) == <<today_str, s.symbol, s.signal>>

\* a filter that lets every candidate through
filter_already_sent_resend(active_signals, seen_set, today_str) == active_signals

filter_already_sent(active_signals, seen_set, today_str) ==
    LET IsNew(s) == SignalKey(s, today_str) \notin seen_set
    IN  SelectSeq(active_signals, IsNew)

-----------------------------------------------------------------------------
(* notifier.py *)

\* the rendered text: the two blocks, one line per signal (the header's wall-clock
\* lines are left out)
format_message(signals, today, now_t) ==
    LET IsBuy(s) == Get(s, "signal") = Some("BUY")
        IsSell(s) == Get(s, "signal") = Some("SELL")
        Line(s) == <<s.symbol, s.suggested_action>>
    IN  [buy |-> MapSeq(SelectSeq(signals, IsBuy), Line),
         sell |-> MapSeq(SelectSeq(signals, IsSell), Line)]

\* netOk: the Telegram API answers 200 within the timeout
send_telegram_message(token, chat_id, text, netOk) ==
    IF IsNone(token) \/ IsNone(chat_id) THEN FALSE ELSE netOk

\* Returns [ok, backup]: backup is last_telegram_message.txt afterwards.
format_and_send(chat_id, signals, token, netOk, today, now_t, backup) ==
    LET message == format_message(signals, today, now_t)
        success == send_telegram_message(token, chat_id, message, netOk)
    IN  IF success THEN [ok |-> TRUE, backup |-> backup]
        ELSE [ok |-> FALSE, backup |-> Some(message)]

-----------------------------------------------------------------------------
(* main.py: run_cycle and main *)

CycleRecord(outcome, signals, seen, new) ==
    [outcome |-> outcome, signals |-> signals, seen |-> seen, new |-> new]

\* the disk, the chat and the last cycle's locals
Files(cache, sent, hist, deliv, backup, cyc) ==
    [cacheFile |-> cache, sentFile |-> sent, histFile |-> hist, delivered |-> deliv,
     fallbackFile |-> backup, cycle |-> cyc]

sent_row(s, now_date, now_t) ==
    [date |-> now_date, symbol |-> s.symbol, direction |-> s.signal, time |-> now_t]

hist_row(s, now_date, now_t) ==
    [date |-> now_date, time |-> now_t, symbol |-> s.symbol, direction |-> s.signal,
     open |-> Get(s, "open"), high |-> Get(s, "high"), low |-> Get(s, "low"),
     entry_close |-> Get(s, "close"), prev_close |-> Get(s, "prev_close"),
     suggested_action |-> s.suggested_action]

\* a cycle that marks the batch as sent although the delivery failed
run_cycle_record_mark_failed(st, today, now_t, lo, signals, ls, new_signals, fs) ==
    LET SentRow(s) == sent_row(s, today, now_t)
        HistRow(s) == hist_row(s, today, now_t)
        Key(s) == <<today, s.symbol, s.signal>>
    IN  IF fs.ok
        THEN Files(lo.file,
                   append_sent_log(ls.file, MapSeq(new_signals, SentRow)),
                   append_history(st.histFile, MapSeq(new_signals, HistRow)),
                   st.delivered \o MapSeq(new_signals, Key),
                   fs.backup,
                   CycleRecord("sent", signals, ls.seen, new_signals))
        ELSE Files(lo.file, append_sent_log(ls.file, MapSeq(new_signals, SentRow)),
                   st.histFile, st.delivered, fs.backup,
                   CycleRecord("sendfail", signals, ls.seen, new_signals))

\* run_cycle from the send on: the batch is delivered and recorded, or neither
run_cycle_record(st, today, now_t, lo, signals, ls, new_signals, fs) ==
    LET SentRow(s) == sent_row(s, today, now_t)
        HistRow(s) == hist_row(s, today, now_t)
        Key(s) == <<today, s.symbol, s.signal>>
    IN  IF fs.ok
        THEN Files(lo.file,
                   append_sent_log(ls.file, MapSeq(new_signals, SentRow)),
                   append_history(st.histFile, MapSeq(new_signals, HistRow)),
                   st.delivered \o MapSeq(new_signals, Key),
                   fs.backup,
                   CycleRecord("sent", signals, ls.seen, new_signals))
        ELSE Files(lo.file, ls.file, st.histFile, st.delivered, fs.backup,
                   CycleRecord("sendfail", signals, ls.seen, new_signals))

\* run_cycle from the filtered batch on
run_cycle_send(st, today, now_t, in, lo, signals, ls, new_signals) ==
    IF new_signals = << >>
    THEN Files(lo.file, ls.file, st.histFile, st.delivered, st.fallbackFile,
               CycleRecord("allsent", signals, ls.seen, new_signals))
    ELSE IF DOMAIN in.cfg = {}
    THEN Files(lo.file, ls.file, st.histFile, st.delivered, st.fallbackFile,
               CycleRecord("noconfig", signals, ls.seen, new_signals))
    ELSE run_cycle_record(st, today, now_t, lo, signals, ls, new_signals,
                          format_and_send(Get(in.cfg, "telegram_chat_id"), new_signals,
                                          Get(in.cfg, "telegram_token"), in.netOk,
                                          today, now_t, st.fallbackFile))

\* run_cycle from the normalised candidates on
run_cycle_dedupe(st, today, now_t, in, lo, signals, ls) ==
    run_cycle_send(st, today, now_t, in, lo, signals, ls,
                   filter_already_sent(signals, ls.seen, today))

\* run_cycle from the generated signals on
run_cycle_signals(st, today, now_t, in, lo, raw_signals) ==
    IF raw_signals = << >>
    THEN Files(lo.file, st.sentFile, st.histFile, st.delivered, st.fallbackFile,
               CycleRecord("nosignals", << >>, {}, << >>))
    ELSE run_cycle_dedupe(st, today, now_t, in, lo, normalize_signals_format(raw_signals),
                          load_sent_log(st.sentFile, today))

\* run_cycle from the answer of load_opening_df on
run_cycle_loaded(st, today, now_t, in, lo) ==
    IF lo.raised
    THEN Files(lo.file, st.sentFile, st.histFile, st.delivered, st.fallbackFile,
               CycleRecord("error", << >>, {}, << >>))
    ELSE IF IsNone(lo.df) \/ Val(lo.df) = << >>
    THEN Files(lo.file, st.sentFile, st.histFile, st.delivered, st.fallbackFile,
               CycleRecord("nodata", << >>, {}, << >>))
    ELSE run_cycle_signals(st, today, now_t, in, lo,
                           generate_option_signals(Val(lo.df), in.dailyFeed))

\* st: the files before; in: what the environment answers to each call the cycle makes
run_cycle(st, today, now_t, in) ==
    run_cycle_loaded(st, today, now_t, in,
                     load_opening_df(st.cacheFile, today, now_t, in.syms, in.feed1m,
                                     in.feed5m, in.ensureFeed))

\* an entry point that runs the cycle at any time of day
main_any_time(st, today, now_t, in) == run_cycle(st, today, now_t, in)

\* one invocation by the scheduler; an exception of run_cycle is caught here
main(st, today, now_t, in) ==
    IF InMarketHours(now_t) THEN run_cycle(st, today, now_t, in)
    ELSE [st EXCEPT !.cycle = CycleRecord("outside", << >>, {}, << >>)]

-----------------------------------------------------------------------------
(* The environment of the cycle *)

ClockTimes == <<570, 600, 935>>

Bar(t, o, h, l, c) == [t |-> t, open |-> o, high |-> h, low |-> l, close |-> c]

Failed1m == [ok |-> FALSE, bars |-> << >>]

\* What the one-minute feed may answer for a symbol: for "A" a bar at 09:30 (outside the
\* window) or a window that closes above its high, for "B" an exception or a window
\* that closes below its low.
MinuteFeedsOf(sym) ==
    IF sym = "A"
    THEN {[ok |-> TRUE, bars |-> <<Bar(570, 50, 51, 49, 50)>>],
          [ok |-> TRUE, bars |-> <<Bar(569, 50, 51, 49, 52)>>]}
    ELSE {Failed1m,
          [ok |-> TRUE, bars |-> <<Bar(555, 51, 52, 51, 50)>>]}

FiveFeeds ==
    {[ok |-> FALSE, bars |-> << >>],
     [ok |-> TRUE, bars |-> <<[t |-> 570, close |-> 52]>>]}

EnsureFeeds == {[ok |-> TRUE, closes |-> <<50, 51>>]}

\* an exception, a previous close of 50 and a previous close of 52
DailyFeeds ==
    {[ok |-> FALSE, closes |-> << >>],
     [ok |-> TRUE, closes |-> <<50, 52>>],
     [ok |-> TRUE, closes |-> <<52, 50>>]}

NoSymbols == [ok |-> TRUE, list |-> << >>]

SymbolSources == {[ok |-> FALSE, list |-> << >>], NoSymbols, [ok |-> TRUE, list |-> <<"A", "B">>]}

ConfigOf(keys) == [k \in keys |-> k]

Configs == {ConfigOf({}), ConfigOf({"telegram_chat_id"}),
            ConfigOf({"telegram_token", "telegram_chat_id"})}

\* one answer of the one-minute feed per symbol asked
FeedChoices(symbols) ==
    {f \in [symbols -> UNION {MinuteFeedsOf(sym) : sym \in symbols}] :
        \A sym \in symbols : f[sym] \in MinuteFeedsOf(sym)}

CurrentFiles ==
    Files(cacheFile, sentFile, histFile, delivered, fallbackFile, cycle)

Inputs(syms, f1, f5, fe, fd, cfg, netOk) ==
    [syms |-> syms, feed1m |-> f1, feed5m |-> f5, ensureFeed |-> fe, dailyFeed |-> fd,
     cfg |-> cfg, netOk |-> netOk]

\* the last cycle's locals, with the date and the time it ran at and the cache, the
\* ledger and the history it found
Stamp(cyc, today, now_t, cache, ledger, history) ==
    DictUpdate(cyc, [date |-> today, time |-> now_t, cache |-> cache, ledger |-> ledger,
                     history |-> history])

InitCycle == Stamp(CycleRecord("init", << >>, {}, << >>), 1, ClockTimes[1], None, None, None)

Install(st) ==
    /\ cacheFile' = st.cacheFile
    /\ sentFile' = st.sentFile
    /\ histFile' = st.histFile
    /\ delivered' = st.delivered
    /\ fallbackFile' = st.fallbackFile
    /\ cycle' = Stamp(st.cycle, day, now, cacheFile, sentFile, histFile)

MainInstall(after) ==
    /\ Len(after.delivered) <= MaxSent
    /\ Install(after)
    /\ UNCHANGED <<day, now, evalRow, evalLog, orData, orResult, mergeLog,
                   tradeFile, forward, report, isoIn, inFlight>>

MainSend(in, sends) ==
    \E cfg \in (IF sends THEN Configs ELSE {ConfigOf({})}) :
    \E netOk \in (IF sends /\ DOMAIN cfg = {"telegram_token", "telegram_chat_id"}
                  THEN BOOLEAN ELSE {FALSE}) :
        MainInstall(main(CurrentFiles, day, now, [in EXCEPT !.cfg = cfg, !.netOk = netOk]))

MainEvaluate(in, rowSyms) ==
    \E fd \in [rowSyms -> DailyFeeds] :
        MainSend([in EXCEPT !.dailyFeed = fd],
                 main(CurrentFiles, day, now, [in EXCEPT !.dailyFeed = fd]).cycle.outcome
                    = "noconfig")

MainLoad(in, lo) ==
    MainEvaluate(in, IF InMarketHours(now) /\ ~IsNone(lo.df) THEN RowSymbols(Val(lo.df))
                     ELSE {})

MainFetch(syms, f1, f5, rowSyms) ==
    \E fe \in {[sym \in rowSyms |-> e] : e \in EnsureFeeds} :
        MainLoad(Inputs(syms, f1, f5, fe, << >>, ConfigOf({}), FALSE),
                 load_opening_df(cacheFile, day, now, syms, f1, f5, fe))

\* One invocation of main().  Each answer of the environment is drawn only where the
\* cycle makes the call.
Main ==
    \E syms \in (IF InMarketHours(now) /\ ~CacheIsFresh(cacheFile, day) /\ InFetchWindow(now)
                 THEN SymbolSources ELSE {NoSymbols}) :
    \E f1 \in FeedChoices(SeqRange(syms.list)) :
    \E f5 \in [SeqRange(syms.list) -> FiveFeeds] :
        MainFetch(syms, f1, f5, RowSymbols(fetch_all(syms.list, f1, f5)))

ClockIndex == CHOOSE i \in 1..Len(ClockTimes) : ClockTimes[i] = now

Tick ==
    /\ IF ClockIndex < Len(ClockTimes)
       THEN now' = ClockTimes[ClockIndex + 1] /\ day' = day
       ELSE day < MaxDay /\ now' = ClockTimes[1] /\ day' = day + 1
    /\ UNCHANGED <<cacheFile, sentFile, histFile, delivered, fallbackFile, cycle,
                   evalRow, evalLog, orData, orResult, mergeLog,
                   tradeFile, forward, report, isoIn, inFlight>>

Init ==
    /\ day = 1
    /\ now = ClockTimes[1]
    /\ cacheFile = None
    /\ sentFile = None
    /\ histFile = None
    /\ delivered = << >>
    /\ fallbackFile = None
    /\ cycle = InitCycle
    /\ evalRow = None
    /\ evalLog = << >>
    /\ orData = None
    /\ orResult = None
    /\ mergeLog = None
    /\ tradeFile = None
    /\ forward = None
    /\ report = None
    /\ isoIn = None
    /\ inFlight = << >>

Next == Main \/ Tick

Spec == Init /\ [][Next]_vars

-----------------------------------------------------------------------------
(* merge-backtests.py.  A DataFrame is [columns, rows]: the column names in order and
   one record per row, a NaN being None. *)

EmptyFrame == [columns |-> << >>, rows |-> << >>]

\* pandas.read_csv of a file that exists and is not of size 0
read_csv(file) ==
    LET header == Val(file).header
        Record(row) == [c \in SeqRange(header) |-> Cell(header, row, c)]
    IN  [columns |-> header, rows |-> MapSeq(Val(file).rows, Record)]

\* pandas.concat([a, b], ignore_index=True, sort=False): the columns of a, then those
\* only b has; a record has NaN in the columns its frame did not have
concat(a, b) ==
    LET NotInA(c) == c \notin SeqRange(a.columns)
        columns == a.columns \o SelectSeq(b.columns, NotInA)
        Reindex(r) == [c \in SeqRange(columns) |-> IF c \in DOMAIN r THEN r[c] ELSE None]
    IN  [columns |-> columns, rows |-> MapSeq(a.rows, Reindex) \o MapSeq(b.rows, Reindex)]

RECURSIVE concat_all(_)
concat_all(dfs) == IF dfs = << >> THEN EmptyFrame ELSE concat(dfs[1], concat_all(Tail(dfs)))

\* colmap.get(c.lower(), c) on the column names the history files carry
colmap(c) ==
    IF c = "entry_close" THEN "entry_price"
    ELSE IF c = "high" THEN "ORH"
    ELSE IF c = "low" THEN "ORL"
    ELSE c

\* new_df.columns = [colmap.get(c.lower(), c) for c in new_df.columns]
rename_columns(df) ==
    LET Renamed(r) ==
            [c \in {colmap(x) : x \in DOMAIN r} |-> r[CHOOSE x \in DOMAIN r : colmap(x) = c]]
    IN  [columns |-> MapSeq(df.columns, colmap), rows |-> MapSeq(df.rows, Renamed)]

DedupeCols == <<"date", "time", "symbol", "direction", "entry_price", "ORH", "ORL">>

ColsOrder == <<"date", "time", "symbol", "direction", "entry_price", "ORH", "ORL",
               "prev_close", "suggested_action">>

\* the row that stays when two rows agree on the subset: the later one, not the first
drop_duplicates_keep_last(df, subset) ==
    LET Key(r) == [c \in subset |-> r[c]]
        Kept == {i \in 1..Len(df.rows) :
                    \A j \in (i + 1)..Len(df.rows) : Key(df.rows[j]) # Key(df.rows[i])}
        Nth(k) == CHOOSE i \in Kept : Cardinality({j \in Kept : j < i}) = k - 1
    IN  [columns |-> df.columns, rows |-> [k \in 1..Cardinality(Kept) |-> df.rows[Nth(k)]]]

\* a deduplication that drops nothing
drop_duplicates_none(df, subset) == df

\* DataFrame.drop_duplicates(subset, keep="first"): NaN equals NaN
drop_duplicates(df, subset) ==
    LET Key(r) == [c \in subset |-> r[c]]
        Kept == {i \in 1..Len(df.rows) :
                    \A j \in 1..(i - 1) : Key(df.rows[j]) # Key(df.rows[i])}
        Nth(k) == CHOOSE i \in Kept : Cardinality({j \in Kept : j < i}) = k - 1
    IN  [columns |-> df.columns, rows |-> [k \in 1..Cardinality(Kept) |-> df.rows[Nth(k)]]]

\* DataFrame.to_csv(index=False, columns=cols): a NaN is written as an empty cell
to_csv(df, cols) ==
    LET Cells(r) == [k \in 1..Len(cols) |-> r[cols[k]]]
    IN  Some([header |-> cols, rows |-> MapSeq(df.rows, Cells)])

\* the merge from the combined frame on: deduplicate, order the columns, write
merge_write(combined) ==
    LET InCombined(c) == c \in SeqRange(combined.columns)
        NotInOrder(c) == c \notin SeqRange(ColsOrder)
    IN  to_csv(drop_duplicates(combined, SeqRange(SelectSeq(DedupeCols, InCombined))),
               SelectSeq(ColsOrder, InCombined) \o SelectSeq(combined.columns, NotInOrder))

\* main() of merge-backtests.py: file is the history of the working copy, artifacts the
\* history files extracted from today's artifacts; the result is the history afterwards
merge_main(file, artifacts) ==
    IF artifacts = << >> THEN file
    ELSE IF concat_all(MapSeq(artifacts, read_csv)).rows = << >> THEN file
    ELSE merge_write(concat(IF IsNone(file) THEN EmptyFrame ELSE read_csv(file),
                            rename_columns(concat_all(MapSeq(artifacts, read_csv)))))

-----------------------------------------------------------------------------
(* backtest_opening_range.py.  The forward feed answers [ok, bars] with the 5-minute
   bars of the trade's date, oldest first.  A float NaN is None. *)

\* max(a, b) of Python on floats: b replaces a only when b > a, which a NaN never is
PyMax(a, b) == IF ~IsNone(b) /\ Val(b) > a THEN Val(b) ELSE a

\* min(a, b) of Python on floats
PyMin(a, b) == IF ~IsNone(b) /\ Val(b) < a THEN Val(b) ELSE a

\* an exit price limited by the boundary only when the price never went the trade's way
exit_price_of_clamp_on_loss(data_after, direction, orh, orl) ==
    LET High(b) == b.high
        Low(b) == b.low
        entry_open == data_after[1].open
        high_after == SeqMax(MapSeq(data_after, High))
        low_after == SeqMin(MapSeq(data_after, Low))
    IN  IF direction = "BUY"
        THEN IF high_after > entry_open THEN high_after ELSE PyMax(low_after, orl)
        ELSE IF low_after < entry_open THEN low_after ELSE PyMin(high_after, orh)

\* get_intraday_move once the bars at or after the signal time are known
exit_price_of(data_after, direction, orh, orl) ==
    LET High(b) == b.high
        Low(b) == b.low
        entry_open == data_after[1].open
        high_after == SeqMax(MapSeq(data_after, High))
        low_after == SeqMin(MapSeq(data_after, Low))
    IN  IF direction = "BUY"
        THEN PyMax(IF high_after > entry_open THEN high_after ELSE low_after, orl)
        ELSE PyMin(IF low_after < entry_open THEN low_after ELSE high_after, orh)

\* an exit price taken from every bar of the day, those before the signal too
get_intraday_move_whole_day(resp, trade_time, direction, orh, orl) ==
    IF ~resp.ok \/ resp.bars = << >> THEN None
    ELSE Some(exit_price_of(resp.bars, direction, orh, orl))

\* the exit price, None when the forward data gives none
get_intraday_move(resp, trade_time, direction, orh, orl) ==
    LET After(b) == b.t >= trade_time
    IN  IF ~resp.ok \/ resp.bars = << >> THEN None
        ELSE IF SelectSeq(resp.bars, After) = << >> THEN None
        ELSE Some(exit_price_of(SelectSeq(resp.bars, After), direction, orh, orl))

\* c.strip().lower() on the column names the trade files carry
lower(c) == IF c = "ORH" THEN "orh" ELSE IF c = "ORL" THEN "orl" ELSE c

ScoreColumns == {"symbol", "date", "time", "direction", "entry_price", "orh", "orl"}

\* the P&L in percent, exactly: the numerator over the entry, times 100
PnlNumerator(direction, entry, exit_price) ==
    IF direction = "BUY" THEN exit_price - entry ELSE entry - exit_price

\* round(pnl, 2), in hundredths of a percent; NaN when the entry is NaN
PnlRounded(direction, entry, exit_price) ==
    IF IsNone(entry) THEN None
    ELSE Some(RoundHalfEven(PnlNumerator(direction, Val(entry), exit_price) * 10000,
                            Val(entry)))

\* "WIN" if pnl > 0 else "LOSS", on the P&L before it is rounded; a NaN is not > 0
result_label(direction, entry, exit_price) ==
    IF ~IsNone(entry) /\ PnlNumerator(direction, Val(entry), exit_price) > 0
    THEN "WIN" ELSE "LOSS"

\* one pass of backtest_intraday's loop once the exit price is known
score_exit(row, exit_price) ==
    IF IsNone(exit_price) THEN [kind |-> "skip"]
    ELSE IF row.entry_price = Some(0) THEN [kind |-> "raise"]
    ELSE [kind |-> "row",
          Date |-> row.date, Time |-> row.time, Symbol |-> row.symbol,
          Direction |-> row.direction, Entry |-> row.entry_price,
          Exit |-> Val(exit_price),
          PnL |-> PnlRounded(row.direction, row.entry_price, Val(exit_price)),
          Result |-> result_label(row.direction, row.entry_price, Val(exit_price))]

\* one pass of the loop: the row skipped, a result row, or a ZeroDivisionError
score_row(row, resp) ==
    score_exit(row, get_intraday_move(resp, row.time, row.direction, row.orh, row.orl))

\* out["PnL_%"].cumsum(): a NaN stays NaN and adds nothing to the rows after it
RECURSIVE SumPnl(_, _)
SumPnl(results, k) ==
    IF k = 0 THEN 0
    ELSE SumPnl(results, k - 1) + (IF IsNone(results[k].PnL) THEN 0 ELSE Val(results[k].PnL))

cumsum(results) ==
    [k \in 1..Len(results) |->
        DictUpdate(results[k],
                   [Cumulative_PnL |-> IF IsNone(results[k].PnL) THEN None
                                       ELSE Some(SumPnl(results, k))])]

\* the printed summary of a non-empty result frame
summary_of(out) ==
    LET Wins == {k \in 1..Len(out) : ~IsNone(out[k].PnL) /\ Val(out[k].PnL) > 0}
        Losses == {k \in 1..Len(out) : ~IsNone(out[k].PnL) /\ Val(out[k].PnL) < 0}
    IN  [trades |-> Len(out),
         wins |-> Cardinality(Wins),
         losses |-> Cardinality(Losses),
         win_rate |-> RoundHalfEven(Cardinality(Wins) * 10000, Len(out)),
         cumulative |-> out[Len(out)].Cumulative_PnL]

Report(outcome, results, summary) ==
    [outcome |-> outcome, results |-> results, summary |-> summary]

\* backtest_intraday once the loop has run over every row
backtest_results(scored) ==
    LET IsRaise(x) == x.kind = "raise"
        IsRow(x) == x.kind = "row"
    IN  IF SelectSeq(scored, IsRaise) # << >> THEN Report("raised", << >>, None)
        ELSE IF SelectSeq(scored, IsRow) = << >> THEN Report("novalid", << >>, None)
        ELSE Report("done", cumsum(SelectSeq(scored, IsRow)),
                    Some(summary_of(cumsum(SelectSeq(scored, IsRow)))))

\* backtest_intraday: file is the trade file, feed[i] what the forward feed answers for
\* row i.  Outcomes: no file, no rows, an exception (a missing column is a KeyError),
\* no valid trade, or the result file and its summary.
backtest_intraday(file, feed) ==
    IF IsNone(file) THEN Report("nofile", << >>, None)
    ELSE IF SizeZero(file) THEN Report("raised", << >>, None)
    ELSE IF Val(file).rows = << >> THEN Report("nodata", << >>, None)
    ELSE IF ~(ScoreColumns \subseteq SeqRange(MapSeq(Val(file).header, lower)))
    THEN Report("raised", << >>, None)
    ELSE LET header == MapSeq(Val(file).header, lower)
             Scored(i) ==
                score_row([c \in ScoreColumns |-> Cell(header, Val(file).rows[i], c)],
                          feed[i])
         IN  backtest_results([i \in 1..Len(Val(file).rows) |-> Scored(i)])

-----------------------------------------------------------------------------
(* Properties of the cycle (Spec) *)

\* the rows of a CSV file as pandas reads them
FileRows(file) == IF IsNone(file) THEN << >> ELSE Val(file).rows

FileHeader(file) == IF IsNone(file) THEN << >> ELSE Val(file).header

\* the (date, symbol, direction) of row i of a file
RowKey(file, i) ==
    <<Cell(FileHeader(file), FileRows(file)[i], "date"),
      Cell(FileHeader(file), FileRows(file)[i], "symbol"),
      Cell(FileHeader(file), FileRows(file)[i], "direction")>>

\* the keys of the rows of a file dated d
KeysOn(file, d) ==
    {RowKey(file, i) : i \in {j \in 1..Len(FileRows(file)) : RowKey(file, j)[1] = d}}

OneRowPerKey(file) ==
    \A i, j \in 1..Len(FileRows(file)) : RowKey(file, i) = RowKey(file, j) => i = j

\* the last cycle got as far as reading the ledger
ReachedLedger == cycle.outcome \in {"allsent", "noconfig", "sent", "sendfail"}

CandidateKey(i) == <<cycle.date, cycle.signals[i].symbol, cycle.signals[i].signal>>

NewKey(i) == <<cycle.date, cycle.new[i].symbol, cycle.new[i].signal>>

NewKeys == {NewKey(i) : i \in 1..Len(cycle.new)}

\* C1: however often the cycles of a day generate the same (date, symbol, direction),
\* the history and the sent ledger each hold at most one row for it.
C1_OneRowPerKey == OneRowPerKey(histFile) /\ OneRowPerKey(sentFile)

\* a cycle generated a candidate again and found every key already recorded
C1_Witness ==
    /\ cycle.outcome = "allsent"
    /\ cycle.signals # << >>
    /\ \A i \in 1..Len(cycle.signals) :
            CandidateKey(i) \in KeysOn(histFile, cycle.date) \cap KeysOn(sentFile, cycle.date)

\* the ledger the last cycle found held rows, none of them dated the cycle's day
OnlyPriorDayRows ==
    /\ FileRows(cycle.ledger) # << >>
    /\ \A i \in 1..Len(FileRows(cycle.ledger)) : RowKey(cycle.ledger, i)[1] # cycle.date

\* C5: a cycle that finds a ledger holding only prior-day rows sees the empty set, lets
\* every candidate through, and leaves the ledger as a cycle starting from an absent
\* ledger would: emptied, or holding exactly the delivered batch under a fresh header.
C5_PriorDayLedgerIsEmpty ==
    (ReachedLedger /\ OnlyPriorDayRows) =>
        /\ cycle.seen = {}
        /\ cycle.seen = load_sent_log(None, cycle.date).seen
        /\ cycle.new = cycle.signals
        /\ IF cycle.outcome = "sent"
           THEN /\ FileHeader(sentFile) = SentFields
                /\ Len(FileRows(sentFile)) = Len(cycle.new)
                /\ \A i \in 1..Len(cycle.new) : RowKey(sentFile, i) = NewKey(i)
           ELSE FileRows(sentFile) = << >>

\* a key delivered on an earlier day is delivered again today
C5_Witness ==
    /\ cycle.outcome = "sent"
    /\ OnlyPriorDayRows
    /\ \E i \in 1..Len(FileRows(cycle.ledger)) : \E j \in 1..Len(cycle.new) :
            /\ RowKey(cycle.ledger, i)[2] = NewKey(j)[2]
            /\ RowKey(cycle.ledger, i)[3] = NewKey(j)[3]

\* the positions of the candidates whose key the ledger did not hold
UnseenPositions == {i \in 1..Len(cycle.signals) : CandidateKey(i) \notin cycle.seen}

\* C6: the filtered batch is exactly the candidates whose (today, symbol, direction) is
\* not in the seen set, in the order they came in, and no two of them share a key.
C6_FilterExact ==
    ReachedLedger =>
        /\ Len(cycle.new) = Cardinality(UnseenPositions)
        /\ \A k \in 1..Len(cycle.new) :
                \E i \in UnseenPositions :
                    /\ cycle.new[k] = cycle.signals[i]
                    /\ Cardinality({j \in UnseenPositions : j < i}) = k - 1
        /\ \A k, m \in 1..Len(cycle.new) : NewKey(k) = NewKey(m) => k = m

\* one candidate was held back and a later one let through
C6_Witness ==
    /\ ReachedLedger
    /\ cycle.new # << >>
    /\ \E i \in 1..Len(cycle.signals) :
            /\ i \notin UnseenPositions
            /\ \E j \in UnseenPositions : j > i

DeliveredOn(d) == {delivered[i] : i \in {j \in 1..Len(delivered) : delivered[j][1] = d}}

\* C7: the keys of today's history rows, the keys delivered today and today's keys in
\* the ledger are the same set; a delivered batch is in both files whole, a batch that
\* was not delivered is in neither.
C7_HistoryDeliveredLedgerAgree ==
    /\ KeysOn(histFile, day) = DeliveredOn(day)
    /\ KeysOn(sentFile, day) = DeliveredOn(day)
    /\ cycle.outcome = "sent" =>
            NewKeys \subseteq KeysOn(histFile, cycle.date) \cap KeysOn(sentFile, cycle.date)
    /\ cycle.outcome \in {"sendfail", "noconfig"} /\ cycle.date = day =>
            NewKeys \cap (KeysOn(histFile, day) \cup KeysOn(sentFile, day)) = {}

\* a batch is delivered after an earlier one failed to go out
C7_Witness ==
    /\ cycle.outcome = "sent"
    /\ cycle.date = day
    /\ ~IsNone(fallbackFile)
    /\ NewKeys # {}
    /\ NewKeys \subseteq DeliveredOn(day)

\* C9: every row of the history carries the snapshot's open, high and low, the entry
\* price and the previous close as present values.
C9_RowsCarrySnapshot ==
    \A i \in 1..Len(FileRows(histFile)) :
        \A col \in {"open", "high", "low", "entry_close", "prev_close"} :
            ~IsNone(Cell(FileHeader(histFile), FileRows(histFile)[i], col))

\* the cache holds snapshots and they are dated d
SnapshotsOf(cache, d) ==
    /\ ~IsNone(cache)
    /\ Len(Val(cache)) >= 1
    /\ \A i \in 1..Len(Val(cache)) : Val(cache)[i].date = d

\* C11: a cycle that finds a cache dated today loads it and leaves it as it is, without
\* fetching again, and the cache holds one snapshot per symbol, all of one date.
C11_CacheWrittenOncePerDay ==
    /\ (cycle.outcome # "init" /\ SnapshotsOf(cycle.cache, cycle.date)) =>
            /\ cacheFile = cycle.cache
            /\ cycle.outcome \notin {"nodata", "error"}
    /\ ~IsNone(cacheFile) =>
            /\ \A i, j \in 1..Len(Val(cacheFile)) :
                    Val(cacheFile)[i].symbol = Val(cacheFile)[j].symbol => i = j
            /\ \A i \in 1..Len(Val(cacheFile)) : Val(cacheFile)[i].date = Val(cacheFile)[1].date

\* a second cycle inside the 09:30-09:35 fetch window found today's cache and used it
C11_Witness ==
    /\ now = MarketOpen
    /\ cycle.date = day
    /\ SnapshotsOf(cycle.cache, day)
    /\ cycle.outcome \in {"sent", "allsent", "nosignals"}
    /\ cacheFile = cycle.cache

\* C19: a cycle that ends on a missing configuration or a missing symbol source has
\* left the cache, the ledger and the history exactly as it found them.
C19_NoPartialAction ==
    cycle.outcome \in {"noconfig", "error"} =>
        /\ cacheFile = cycle.cache
        /\ sentFile = cycle.ledger
        /\ histFile = cycle.history

\* the step is a cycle whose delivery failed
FailedDelivery == cycle' # cycle /\ cycle'.outcome = "sendfail"

\* the step is a cycle that read the ledger, on the day of a cycle whose delivery failed
CycleAfterFailure ==
    /\ cycle.outcome = "sendfail"
    /\ cycle'.date = cycle.date
    /\ cycle'.outcome \in {"allsent", "noconfig", "sent", "sendfail"}

C24_SkippedCyclesAreMadeUp ==
    [][(cycle' # cycle /\ InMarketHours(now) /\ ~InFetchWindow(now)) =>
            /\ cycle'.outcome # "nodata"
            /\ CacheIsFresh(cacheFile', day)]_vars

\* the dates of the rows of the ledger
LedgerDates == {RowKey(sentFile, i)[1] : i \in 1..Len(FileRows(sentFile))}

\* C25: the rows of the ledger never carry two different dates, and once a cycle has
\* read the ledger every row left in it is dated that cycle's day.
C25_LedgerHoldsOneDate ==
    /\ Cardinality(LedgerDates) <= 1
    /\ (ReachedLedger /\ cycle.date = day) => LedgerDates \subseteq {day}

\* after a rollover the ledger of the day before was emptied and holds today's batch
C25_Witness ==
    /\ day > 1
    /\ cycle.outcome = "sent"
    /\ cycle.date = day
    /\ \E i \in 1..Len(FileRows(cycle.ledger)) : RowKey(cycle.ledger, i)[1] = day - 1
    /\ LedgerDates = {day}

\* the cache on disk holds snapshots of an earlier day
StaleCache == ~IsNone(cacheFile) /\ ~SnapshotsOf(cacheFile, day)

\* the cycle of this step evaluated snapshots
Evaluated == cycle'.outcome \in {"nosignals", "allsent", "noconfig", "sent", "sendfail"}

\* C26: a cycle evaluates only with a cache of today on disk; a cycle that finds the cache
\* of an earlier day outside 09:30-09:35 ends without a candidate and leaves the cache,
\* the ledger, the history, the fallback file and the chat as they were; the cache
\* changes only inside 09:30-09:35.
C26_StaleCacheIsNeverUsed ==
    [][/\ (cycle' # cycle /\ Evaluated) => SnapshotsOf(cacheFile', day)
       /\ (cycle' # cycle /\ StaleCache /\ ~InFetchWindow(now)) =>
            /\ cycle'.outcome \in {"nodata", "outside"}
            /\ cycle'.signals = << >>
            /\ UNCHANGED <<cacheFile, sentFile, histFile, fallbackFile, delivered>>
       /\ cacheFile' # cacheFile => InFetchWindow(now)]_vars

\* a cycle at 10:00 found the cache of the day before and left it
C26_Witness ==
    /\ day > 1
    /\ now = cycle.time
    /\ cycle.date = day
    /\ InMarketHours(cycle.time) /\ ~InFetchWindow(cycle.time)
    /\ cycle.outcome = "nodata"
    /\ SnapshotsOf(cycle.cache, day - 1)
    /\ cacheFile = cycle.cache

\* C28: an invocation outside 09:30-15:30 ends at once and leaves the cache, the ledger,
\* the history, the fallback file and the chat as they were; a cycle that ends on an
\* exception ran inside those hours and is the end of that invocation only.
C28_OutsideHoursChangesNothing ==
    [][cycle' # cycle =>
            /\ ~InMarketHours(now) =>
                    /\ cycle'.outcome = "outside"
                    /\ cycle'.signals = << >>
                    /\ UNCHANGED <<cacheFile, sentFile, histFile, fallbackFile, delivered>>
            /\ cycle'.outcome = "error" =>
                    /\ InMarketHours(now)
                    /\ UNCHANGED <<cacheFile, sentFile, histFile, fallbackFile, delivered>>]_vars

\* an invocation at 15:35, after a delivery earlier that day
C28_Witness ==
    /\ cycle.outcome = "outside"
    /\ cycle.date = day
    /\ cycle.time = now
    /\ ~InMarketHours(now)
    /\ DeliveredOn(day) # {}
    /\ cacheFile = cycle.cache /\ sentFile = cycle.ledger /\ histFile = cycle.history

-----------------------------------------------------------------------------
(* The evaluator on its own: a snapshot row as fetch_all builds it, evaluated
   MaxEvals times, each time against what the daily feed answers then. *)

EvalCloses == 48..52

EvalHighs == {50, 51}

EvalLows == {49, 50}

EvalLastCloses == {48, 50, 52}

EvalDailyFeeds ==
    {[ok |-> FALSE, closes |-> << >>],
     [ok |-> TRUE, closes |-> << >>],
     [ok |-> TRUE, closes |-> <<0>>],
     [ok |-> TRUE, closes |-> <<50>>],
     [ok |-> TRUE, closes |-> <<51>>],
     [ok |-> TRUE, closes |-> <<50, 51>>],
     [ok |-> TRUE, closes |-> <<51, 50>>],
     [ok |-> TRUE, closes |-> <<0, 50>>]}

\* the rows fetch_all returns for one symbol with one bar in the window
EvalRows ==
    {fetch_all(<<"A">>,
               [sym \in {"A"} |-> [ok |-> TRUE, bars |-> <<Bar(WindowStart, 50, h, l, c)>>]],
               [sym \in {"A"} |-> [ok |-> TRUE,
                                   bars |-> <<[t |-> WindowEnd, close |-> lc]>>]])[1] :
        h \in EvalHighs, l \in EvalLows, c \in EvalCloses, lc \in EvalLastCloses}

\* the rows as load_opening_df hands them to the evaluator: each with the previous close
\* recorded when the cache was written
EvalSnapshots ==
    {ensure_prev_close_in_rows(<<r>>, [sym \in {"A"} |-> [ok |-> TRUE, closes |-> <<50, 51>>]])[1] :
        r \in EvalRows}

InitEval ==
    /\ day = 1
    /\ now = ClockTimes[1]
    /\ cacheFile = None
    /\ sentFile = None
    /\ histFile = None
    /\ delivered = << >>
    /\ fallbackFile = None
    /\ cycle = InitCycle
    /\ evalRow \in {Some(r) : r \in EvalSnapshots}
    /\ evalLog = << >>
    /\ orData = None
    /\ orResult = None
    /\ mergeLog = None
    /\ tradeFile = None
    /\ forward = None
    /\ report = None
    /\ isoIn = None
    /\ inFlight = << >>

Evaluate ==
    /\ ~IsNone(evalRow)
    /\ Len(evalLog) < MaxEvals
    /\ \E d \in EvalDailyFeeds :
          evalLog' = Append(evalLog,
                            [daily |-> d,
                             result |-> make_signal(Val(evalRow), d),
                             trades |-> generate_option_signals(
                                            <<Val(evalRow)>>, [sym \in {"A"} |-> d])])
    /\ UNCHANGED <<mainVars, evalRow, orData, orResult, mergeLog,
                   tradeFile, forward, report, isoIn, inFlight>>

NextEval == Evaluate

SpecEval == InitEval /\ [][NextEval]_vars

-----------------------------------------------------------------------------
(* Properties of the evaluator (SpecEval) *)

\* the previous close evaluation i went by, None when it had none
EvalPrev(i) == prev_day_close(evalLog[i].daily)

\* the decision of evaluation i, "none" when the evaluator returned nothing
EvalDecision(i) == IF IsNone(evalLog[i].result) THEN "none" ELSE Val(evalLog[i].result).signal

\* BUY above the high with a rise of at least 2%, SELL below the low with a fall of at
\* least 2%, written without the percentage
BreakOf(price, high, low, prev) ==
    IF price > high /\ 100 * price >= 102 * prev THEN "BUY"
    ELSE IF price < low /\ 100 * price <= 98 * prev THEN "SELL"
    ELSE "HOLD"

C3_DecidesOnLaterClose ==
    \A i \in 1..Len(evalLog) :
        ~Falsy(EvalPrev(i)) =>
            EvalDecision(i) = BreakOf(Val(evalRow).last_close, Val(evalRow).high,
                                      Val(evalRow).low, Val(EvalPrev(i)))

\* C4: when the daily feed raises, returns no bar or returns a single bar, there is no
\* previous close: the evaluator returns nothing and no trade comes out.
C4_NoPreviousCloseNoSignal ==
    \A i \in 1..Len(evalLog) :
        (~evalLog[i].daily.ok \/ Len(evalLog[i].daily.closes) <= 1) =>
            IsNone(evalLog[i].result) /\ evalLog[i].trades = << >>

\* C20: two evaluations of the same snapshot, with its recorded previous close and its
\* price, give the same decision and the same trades, whatever the daily feed answers
\* at the time of each.
C20_SameSnapshotSameDecision ==
    \A i, j \in 1..Len(evalLog) :
        /\ EvalDecision(i) = EvalDecision(j)
        /\ evalLog[i].trades = evalLog[j].trades

-----------------------------------------------------------------------------
(* The snapshot builder on its own: one answer of the one-minute feed, then
   get_opening_range. *)

\* 09:14, 09:15, 09:29 and 09:30
BarTimes == {WindowStart - 1, WindowStart, WindowEnd - 1, WindowEnd}

BarPrices == {1, 2}

Bars == {Bar(t, o, h, l, c) : t \in BarTimes, o \in BarPrices, h \in BarPrices,
                              l \in BarPrices, c \in BarPrices}

\* the frames of at most MaxBars bars, in ascending time order
RECURSIVE BarSeqs(_)
BarSeqs(n) ==
    IF n = 0 THEN {<< >>}
    ELSE LET shorter == BarSeqs(n - 1)
         IN  shorter \cup
             UNION {{Append(s, b) : b \in {x \in Bars : n = 1 \/ s[n - 1].t < x.t}} :
                        s \in {x \in shorter : Len(x) = n - 1}}

MinuteAnswers == {Failed1m} \cup {[ok |-> TRUE, bars |-> s] : s \in BarSeqs(MaxBars)}

InitOR ==
    /\ day = 1
    /\ now = ClockTimes[1]
    /\ cacheFile = None
    /\ sentFile = None
    /\ histFile = None
    /\ delivered = << >>
    /\ fallbackFile = None
    /\ cycle = InitCycle
    /\ evalRow = None
    /\ evalLog = << >>
    /\ orData \in {Some(a) : a \in MinuteAnswers}
    /\ orResult = None
    /\ mergeLog = None
    /\ tradeFile = None
    /\ forward = None
    /\ report = None
    /\ isoIn = None
    /\ inFlight = << >>

OpeningRange ==
    /\ ~IsNone(orData)
    /\ IsNone(orResult)
    /\ orResult' = Some(get_opening_range("A", Val(orData)))
    /\ UNCHANGED <<mainVars, evalRow, evalLog, orData, mergeLog,
                   tradeFile, forward, report, isoIn, inFlight>>

NextOR == OpeningRange

SpecOR == InitOR /\ [][NextOR]_vars

-----------------------------------------------------------------------------
(* Properties of the snapshot builder (SpecOR) *)

\* the positions of the bars of the feed's answer that lie in [09:15, 09:30)
InWindowPositions ==
    {i \in 1..Len(Val(orData).bars) :
        WindowStart <= Val(orData).bars[i].t /\ Val(orData).bars[i].t < WindowEnd}

ORBar(i) == Val(orData).bars[i]

\* C10: the snapshot's open is the first in-window open, its high the greatest in-window
\* high, its low the least in-window low, its close the last in-window close; without an
\* in-window bar the answer is "no data"; no field comes from a bar outside the window.
C10_OpeningRange ==
    ~IsNone(orResult) =>
        IF ~Val(orData).ok \/ InWindowPositions = {}
        THEN IsNone(Val(orResult))
        ELSE /\ ~IsNone(Val(orResult))
             /\ \E first, last, hi, lo \in InWindowPositions :
                    /\ \A i \in InWindowPositions : first <= i /\ i <= last
                    /\ \A i \in InWindowPositions :
                            ORBar(hi).high >= ORBar(i).high /\ ORBar(lo).low <= ORBar(i).low
                    /\ Val(Val(orResult)).open = ORBar(first).open
                    /\ Val(Val(orResult)).high = ORBar(hi).high
                    /\ Val(Val(orResult)).low = ORBar(lo).low
                    /\ Val(Val(orResult)).close = ORBar(last).close

\* a snapshot of a window next to a 09:30 bar that goes higher and lower and closes
\* elsewhere
C10_Witness ==
    /\ ~IsNone(orResult)
    /\ ~IsNone(Val(orResult))
    /\ \E i \in 1..Len(Val(orData).bars) :
            /\ i \notin InWindowPositions
            /\ ORBar(i).high > Val(Val(orResult)).high
            /\ ORBar(i).low < Val(Val(orResult)).low
            /\ ORBar(i).close # Val(Val(orResult)).close

-----------------------------------------------------------------------------
(* The history under cycles and merges: the working copy at 10:00 on day 1 with today's
   snapshots saved, where cycles run and the merge brings in the histories other runs
   wrote earlier in the day, or a copy of the working copy's own. *)

MergeClock == ClockTimes[2]

\* 09:35: when the other runs sent what they sent
OtherRunTimes == {FetchEnd}

\* the cache a 09:30 cycle saved: "A" closes above its high, "B" below its low
MergeCache ==
    save_opening_df(None, 1,
                    fetch_all(<<"A", "B">>,
                              [sym \in {"A", "B"} |->
                                  IF sym = "A"
                                  THEN [ok |-> TRUE, bars |-> <<Bar(569, 50, 51, 49, 52)>>]
                                  ELSE [ok |-> TRUE, bars |-> <<Bar(555, 51, 52, 51, 50)>>]],
                              [sym \in {"A", "B"} |->
                                  [ok |-> TRUE, bars |-> <<[t |-> 570, close |-> 52]>>]]),
                    [sym \in {"A", "B"} |-> [ok |-> TRUE, closes |-> <<50, 51>>]]).file

\* the signals another run generates from the same snapshots: BUY "A" and SELL "B"
OtherRunSignals ==
    normalize_signals_format(
        generate_option_signals(Val(MergeCache),
                                [sym \in {"A", "B"} |->
                                    IF sym = "A" THEN [ok |-> TRUE, closes |-> <<50, 52>>]
                                    ELSE [ok |-> TRUE, closes |-> <<52, 50>>]]))

\* the batches of another run: the first signal alone, or both
OtherRunBatches == {<<OtherRunSignals[1]>>, OtherRunSignals}

\* the history another run wrote, starting from none
OtherRunHistory(batch, t) ==
    LET HistRow(s) == hist_row(s, 1, t)
    IN  append_history(None, MapSeq(batch, HistRow))

\* what an artifact of today may hold: the history of another run, or the working
\* copy's own while append_history alone has written it
ArtifactFiles(file) ==
    {OtherRunHistory(b, t) : b \in OtherRunBatches, t \in OtherRunTimes}
        \cup (IF ~IsNone(file) /\ Val(file).header = HistFields THEN {file} ELSE {})

ArtifactLists(file) ==
    UNION {[1..n -> ArtifactFiles(file)] : n \in 0..MaxArtifacts}

Merge ==
    /\ \E artifacts \in ArtifactLists(histFile) :
            histFile' = merge_main(histFile, artifacts)
    /\ mergeLog' = Some([before |-> histFile])
    /\ UNCHANGED <<day, now, cacheFile, sentFile, delivered, fallbackFile, cycle,
                   evalRow, evalLog, orData, orResult, tradeFile, forward, report, isoIn, inFlight>>

InitMerge ==
    /\ day = 1
    /\ now = MergeClock
    /\ cacheFile = MergeCache
    /\ sentFile = None
    /\ histFile = None
    /\ delivered = << >>
    /\ fallbackFile = None
    /\ cycle = Stamp(CycleRecord("nosignals", << >>, {}, << >>), 1, ClockTimes[1], None, None, None)
    /\ evalRow = None
    /\ evalLog = << >>
    /\ orData = None
    /\ orResult = None
    /\ mergeLog = None
    /\ tradeFile = None
    /\ forward = None
    /\ report = None
    /\ isoIn = None
    /\ inFlight = << >>

NextMerge == Main \/ Merge

SpecMerge == InitMerge /\ [][NextMerge]_vars

-----------------------------------------------------------------------------
(* Properties of the history's writers (SpecMerge) *)

\* s is the beginning of t
IsPrefix(s, t) == Len(s) <= Len(t) /\ \A i \in 1..Len(s) : s[i] = t[i]

\* the rows of a file as records over the given columns
RecordsOver(file, cols) ==
    [i \in 1..Len(FileRows(file)) |->
        [c \in cols |-> Cell(FileHeader(file), FileRows(file)[i], c)]]

\* the rows of before are the first rows of after, each with the value it had in every
\* column it had
RowsKept(before, after) ==
    IsPrefix(RecordsOver(before, SeqRange(FileHeader(before))),
             RecordsOver(after, SeqRange(FileHeader(before))))

\* C8: the rows the history held before a cycle and before a merge are still its first
\* rows, in the same order and with the same values; no writer removes a row.
C8_HistoryOnlyGrows ==
    /\ RowsKept(cycle.history, histFile)
    /\ ~IsNone(mergeLog) => RowsKept(Val(mergeLog).before, histFile)

\* a merge found rows, some of them the working copy's own, and brought more in, and a
\* cycle appended to what the merge wrote
C8_Witness ==
    /\ ~IsNone(mergeLog)
    /\ FileRows(Val(mergeLog).before) # << >>
    /\ FileHeader(histFile) # HistFields
    /\ Len(FileRows(histFile)) > Len(FileRows(Val(mergeLog).before)) + 1
    /\ cycle.outcome = "sent"
    /\ FileHeader(cycle.history) # HistFields
    /\ FileRows(cycle.history) # << >>

-----------------------------------------------------------------------------
(* The scorer on its own: a trade file and what the forward feed answers for each of
   its rows, then backtest_intraday.  The trade file is one the program wrote (the
   history of a run, or that history after a merge) or a historical trade file of at
   most MaxTrades rows. *)

FBar(t, o, h, l) == [t |-> t, open |-> o, high |-> h, low |-> l]

Forward(bars) == [ok |-> TRUE, bars |-> bars]

ForwardFailed == [ok |-> FALSE, bars |-> << >>]

\* a trade and the answer of the forward feed for it
TradeKind(direction, entry, answer) ==
    [direction |-> direction, entry |-> entry, orh |-> 101, orl |-> 90, answer |-> answer]

TradeKinds ==
    {TradeKind("BUY", 100, Forward(<<FBar(600, 95, 98, 94)>>)),
     TradeKind("BUY", 100, Forward(<<FBar(600, 100, 100, 100)>>)),
     TradeKind("BUY", 100, Forward(<<FBar(600, 100, 101, 99), FBar(605, 101, 104, 100)>>)),
     TradeKind("BUY", 100, Forward(<<FBar(600, 100, 100, 80)>>)),
     TradeKind("BUY", 100, Forward(<<FBar(600, 80, 85, 70)>>)),
     TradeKind("SELL", 100, Forward(<<FBar(600, 100, 104, 99)>>)),
     TradeKind("SELL", 100, Forward(<<FBar(600, 100, 104, 100)>>)),
     TradeKind("BUY", 30000, Forward(<<FBar(600, 30000, 30001, 30000)>>)),
     TradeKind("BUY", 0, Forward(<<FBar(600, 100, 104, 99)>>)),
     TradeKind("BUY", 100, ForwardFailed),
     TradeKind("SELL", 100, Forward(<< >>)),
     TradeKind("BUY", 100, Forward(<<FBar(569, 100, 104, 99)>>))}

\* when the signal was sent: 10:00 on day 1, or 09:30 on day 2
TradeSlots == {<<1, 600>>, <<2, 570>>}

\* the row of a historical trade file, cells in ColsOrder order
TradeRow(kind, slot) ==
    <<slot[1], slot[2], "A", kind.direction, Some(kind.entry), Some(kind.orh),
      Some(kind.orl), None, None>>

TradePicks == UNION {[1..n -> TradeKinds \X TradeSlots] : n \in 0..MaxTrades}

HistoricalFile(picks) ==
    LET Row(pick) == TradeRow(pick[1], pick[2])
    IN  Some([header |-> ColsOrder, rows |-> MapSeq(picks, Row)])

HistoricalFeed(picks) ==
    LET Answer(pick) == pick[1].answer
    IN  MapSeq(picks, Answer)

\* the files the program writes: the history of a run and that history merged
WrittenFiles ==
    {OtherRunHistory(b, t) : b \in OtherRunBatches, t \in OtherRunTimes}
        \cup {merge_main(None, <<OtherRunHistory(b, t)>>) :
                b \in OtherRunBatches, t \in OtherRunTimes}

WrittenFeeds(file) ==
    [1..Len(Val(file).rows) -> {ForwardFailed, Forward(<<FBar(600, 100, 104, 99)>>)}]

InitScore ==
    /\ day = 1
    /\ now = ClockTimes[1]
    /\ cacheFile = None
    /\ sentFile = None
    /\ histFile = None
    /\ delivered = << >>
    /\ fallbackFile = None
    /\ cycle = InitCycle
    /\ evalRow = None
    /\ evalLog = << >>
    /\ orData = None
    /\ orResult = None
    /\ mergeLog = None
    /\ \/ \E picks \in TradePicks :
            tradeFile = HistoricalFile(picks) /\ forward = HistoricalFeed(picks)
       \/ \E file \in WrittenFiles : \E feed \in WrittenFeeds(file) :
            tradeFile = file /\ forward = feed
       \/ tradeFile = None /\ forward = << >>
    /\ report = None
    /\ isoIn = None
    /\ inFlight = << >>

Backtest ==
    /\ IsNone(report)
    /\ report' = Some(backtest_intraday(tradeFile, forward))
    /\ UNCHANGED <<mainVars, evalRow, evalLog, orData, orResult, mergeLog,
                   tradeFile, forward, isoIn, inFlight>>

NextScore == Backtest

SpecScore == InitScore /\ [][NextScore]_vars

-----------------------------------------------------------------------------
(* Properties of the scorer (SpecScore) *)

Scored == ~IsNone(report)

TheReport == Val(report)

\* the trade file is one the scorer can read: it exists, has rows and the columns
Readable ==
    /\ ~IsNone(tradeFile)
    /\ FileRows(tradeFile) # << >>
    /\ ScoreColumns \subseteq SeqRange(MapSeq(FileHeader(tradeFile), lower))

\* the cell of row i of the trade file under a column of the scorer
TradeCell(i, col) == Cell(MapSeq(FileHeader(tradeFile), lower), FileRows(tradeFile)[i], col)

\* the bars the forward feed gave for row i at or after the signal time
BarsAfter(i) ==
    LET After(b) == b.t >= TradeCell(i, "time")
    IN  IF forward[i].ok THEN SelectSeq(forward[i].bars, After) ELSE << >>

\* the rows of the trade file that have forward data, in file order
ScoredPositions == {i \in 1..Len(FileRows(tradeFile)) : BarsAfter(i) # << >>}

\* the position in the trade file of result row k
PositionOf(k) ==
    CHOOSE i \in ScoredPositions : Cardinality({j \in ScoredPositions : j < i}) = k - 1

\* the exit the claim describes for row i: the running high when the price goes over
\* the trade's entry price, else the running low, not below the low boundary; the mirror
\* for a SELL
ExitAgainstEntry(i) ==
    LET High(b) == b.high
        Low(b) == b.low
        entry == Val(TradeCell(i, "entry_price"))
        running_high == SeqMax(MapSeq(BarsAfter(i), High))
        running_low == SeqMin(MapSeq(BarsAfter(i), Low))
    IN  IF TradeCell(i, "direction") = "BUY"
        THEN PyMax(IF running_high > entry THEN running_high ELSE running_low,
                   TradeCell(i, "orl"))
        ELSE PyMin(IF running_low < entry THEN running_low ELSE running_high,
                   TradeCell(i, "orh"))

\* C12: the exit of a BUY is the running high of the forward prices if the price ever
\* exceeds the trade's entry price, else the running low, limited by the low boundary;
\* a SELL is the mirror; the entry is the one the P&L is computed against.
C12_ExitAgainstEntryPrice ==
    (Scored /\ TheReport.outcome = "done") =>
        \A k \in 1..Len(TheReport.results) :
            ~IsNone(TheReport.results[k].Entry) =>
                TheReport.results[k].Exit = ExitAgainstEntry(PositionOf(k))

\* C13: every trade of a readable trade file with forward data gets a result row with a
\* defined PnL_%, whatever its entry price, and the row is labelled WIN exactly when
\* the recorded PnL_% is > 0 and LOSS exactly when it is <= 0.
C13_LabelMatchesRecordedPnl ==
    (Scored /\ Readable) =>
        /\ TheReport.outcome # "raised"
        /\ Len(TheReport.results) = Cardinality(ScoredPositions)
        /\ \A k \in 1..Len(TheReport.results) :
                /\ ~IsNone(TheReport.results[k].PnL)
                /\ TheReport.results[k].Result = "WIN" <=> Val(TheReport.results[k].PnL) > 0
                /\ TheReport.results[k].Result = "LOSS" <=> Val(TheReport.results[k].PnL) <= 0

Labelled(label) == {k \in 1..Len(TheReport.results) : TheReport.results[k].Result = label}

\* C14: in the summary wins + losses = trades, the wins are the rows labelled WIN, the
\* losses the rows labelled LOSS (a P&L of exactly zero among them), and the win rate
\* is wins / trades.
C14_WinsPlusLossesIsTotal ==
    (Scored /\ TheReport.outcome = "done") =>
        LET summary == Val(TheReport.summary)
        IN  /\ summary.wins + summary.losses = summary.trades
            /\ summary.wins = Cardinality(Labelled("WIN"))
            /\ summary.losses = Cardinality(Labelled("LOSS"))
            /\ summary.trades = Len(TheReport.results)
            /\ summary.win_rate = RoundHalfEven(summary.wins * 10000, summary.trades)

\* row k is not later than row m: ascending date, then ascending time
NotLater(k, m) ==
    \/ TheReport.results[k].Date < TheReport.results[m].Date
    \/ /\ TheReport.results[k].Date = TheReport.results[m].Date
       /\ TheReport.results[k].Time <= TheReport.results[m].Time

RECURSIVE PnlSum(_)
PnlSum(k) == IF k = 0 THEN 0 ELSE PnlSum(k - 1) + Val(TheReport.results[k].PnL)

\* C15: the result rows are in ascending order of date and then time, whatever the
\* order of the trade file, and the Cumulative_PnL of row k is the sum of the PnL_% of
\* the first k rows.
C15_CumulativeInTimeOrder ==
    (/\ Scored
     /\ TheReport.outcome = "done"
     /\ \A k \in 1..Len(TheReport.results) : ~IsNone(TheReport.results[k].PnL)) =>
        /\ \A k, m \in 1..Len(TheReport.results) : k < m => NotLater(k, m)
        /\ \A k \in 1..Len(TheReport.results) :
                TheReport.results[k].Cumulative_PnL = Some(PnlSum(k))

\* the trade file and the feed without the rows that have no forward data
KeptRows == [k \in 1..Cardinality(ScoredPositions) |-> FileRows(tradeFile)[PositionOf(k)]]

KeptFeed == [k \in 1..Cardinality(ScoredPositions) |-> forward[PositionOf(k)]]

WithoutExcluded ==
    backtest_intraday(Some([header |-> FileHeader(tradeFile), rows |-> KeptRows]), KeptFeed)

\* C16: a signal whose forward fetch raises, is empty or has no bar at or after the
\* signal time gets no result row and counts in no aggregate, so it is never a LOSS;
\* the rows and the summary are those of the trade file without it.
C16_NoForwardDataIsExcluded ==
    (Scored /\ ~IsNone(tradeFile)) =>
        /\ Len(TheReport.results) <= Cardinality(ScoredPositions)
        /\ \A k \in 1..Len(TheReport.results) :
                /\ TheReport.results[k].Date = TradeCell(PositionOf(k), "date")
                /\ TheReport.results[k].Time = TradeCell(PositionOf(k), "time")
                /\ TheReport.results[k].Direction = TradeCell(PositionOf(k), "direction")
        /\ ~IsNone(TheReport.summary) =>
                Val(TheReport.summary).trades = Cardinality(ScoredPositions)
        /\ TheReport.results = WithoutExcluded.results
        /\ TheReport.summary = WithoutExcluded.summary

\* one signal is scored and another, with bars only before its signal time, is left out
C16_Witness ==
    /\ Scored
    /\ TheReport.outcome = "done"
    /\ Len(TheReport.results) = 1
    /\ \E i \in 1..Len(FileRows(tradeFile)) :
            /\ i \notin ScoredPositions
            /\ forward[i].ok
            /\ forward[i].bars # << >>

\* C17: when the trade file has no rows, or no signal of it has forward data, the
\* scorer ends normally with no result; it raises nothing.
C17_EmptyResultEndsNormally ==
    (Scored /\ ScoredPositions = {}) =>
        /\ TheReport.outcome \in {"nofile", "nodata", "novalid"}
        /\ TheReport.results = << >>

\* the recorded P&L of row i had it been closed at price, in hundredths of a percent
PnlAt(i, price) ==
    RoundHalfEven(PnlNumerator(TradeCell(i, "direction"), Val(TradeCell(i, "entry_price")),
                               price) * 10000,
                  Val(TradeCell(i, "entry_price")))

\* row i of the trade file carries an entry price and both boundaries
HasBoundaries(i) ==
    /\ ~IsNone(TradeCell(i, "entry_price"))
    /\ ~IsNone(TradeCell(i, "orh"))
    /\ ~IsNone(TradeCell(i, "orl"))

\* C27: for a trade that carries its boundaries, the exit of a BUY is never below ORL
\* and the exit of a SELL never above ORH, whether or not the price went the trade's
\* way, so the recorded P&L is never below the P&L of an exit at that boundary.
C27_ExitNeverBreachesBoundary ==
    (Scored /\ TheReport.outcome = "done") =>
        \A k \in 1..Len(TheReport.results) :
            HasBoundaries(PositionOf(k)) =>
                /\ TheReport.results[k].Direction = "BUY" =>
                        /\ TheReport.results[k].Exit >= Val(TradeCell(PositionOf(k), "orl"))
                        /\ Val(TheReport.results[k].PnL) >=
                                PnlAt(PositionOf(k), Val(TradeCell(PositionOf(k), "orl")))
                /\ TheReport.results[k].Direction = "SELL" =>
                        /\ TheReport.results[k].Exit <= Val(TradeCell(PositionOf(k), "orh"))
                        /\ Val(TheReport.results[k].PnL) >=
                                PnlAt(PositionOf(k), Val(TradeCell(PositionOf(k), "orh")))

\* a BUY whose price rose after the signal without reaching ORL is closed at ORL
C27_Witness ==
    /\ Scored
    /\ TheReport.outcome = "done"
    /\ \E k \in 1..Len(TheReport.results) :
            /\ HasBoundaries(PositionOf(k))
            /\ TheReport.results[k].Direction = "BUY"
            /\ TheReport.results[k].Exit = Val(TradeCell(PositionOf(k), "orl"))
            /\ \E n \in 1..Len(BarsAfter(PositionOf(k))) :
                    /\ BarsAfter(PositionOf(k))[n].high > BarsAfter(PositionOf(k))[1].open
                    /\ BarsAfter(PositionOf(k))[n].high < Val(TradeCell(PositionOf(k), "orl"))

-----------------------------------------------------------------------------
(* One cycle over two symbols on an empty disk at 09:30, each call to the data source
   answering per symbol: an exception, an empty frame or data. *)

IsoSymbols == <<"A", "B">>

\* a window for A that closes above its high, one for B that closes below its low
IsoMinuteFeeds(sym) ==
    {Failed1m,
     [ok |-> TRUE, bars |-> << >>],
     [ok |-> TRUE, bars |-> IF sym = "A" THEN <<Bar(555, 50, 51, 49, 52)>>
                            ELSE <<Bar(555, 51, 52, 51, 50)>>]}

IsoFiveFeeds ==
    {[ok |-> FALSE, bars |-> << >>],
     [ok |-> TRUE, bars |-> << >>],
     [ok |-> TRUE, bars |-> <<[t |-> 570, close |-> 52]>>]}

IsoEnsureFeeds ==
    {[ok |-> FALSE, closes |-> << >>],
     [ok |-> TRUE, closes |-> <<50, 51>>]}

\* a previous close 2% away from the close of the symbol's window, on the side it broke
IsoDailyFeeds(sym) ==
    {[ok |-> FALSE, closes |-> << >>],
     [ok |-> TRUE, closes |-> << >>],
     [ok |-> TRUE, closes |-> IF sym = "A" THEN <<50, 52>> ELSE <<52, 50>>]}

IsoAnswers(feeds(_)) ==
    {f \in [SeqRange(IsoSymbols) -> UNION {feeds(sym) : sym \in SeqRange(IsoSymbols)}] :
        \A sym \in SeqRange(IsoSymbols) : f[sym] \in feeds(sym)}

IsoInputs ==
    {Inputs([ok |-> TRUE, list |-> IsoSymbols], f1, f5, fe, fd,
            ConfigOf({"telegram_token", "telegram_chat_id"}), TRUE) :
        f1 \in IsoAnswers(IsoMinuteFeeds),
        f5 \in [SeqRange(IsoSymbols) -> IsoFiveFeeds],
        fe \in [SeqRange(IsoSymbols) -> IsoEnsureFeeds],
        fd \in IsoAnswers(IsoDailyFeeds)}

InitIso ==
    /\ day = 1
    /\ now = ClockTimes[1]
    /\ cacheFile = None
    /\ sentFile = None
    /\ histFile = None
    /\ delivered = << >>
    /\ fallbackFile = None
    /\ cycle = InitCycle
    /\ evalRow = None
    /\ evalLog = << >>
    /\ orData = None
    /\ orResult = None
    /\ mergeLog = None
    /\ tradeFile = None
    /\ forward = None
    /\ report = None
    /\ isoIn \in {Some(in) : in \in IsoInputs}
    /\ inFlight = << >>

\* the one invocation of main() against these answers
Isolate ==
    /\ ~IsNone(isoIn)
    /\ cycle.outcome = "init"
    /\ MainInstall(main(CurrentFiles, day, now, Val(isoIn)))

NextIso == Isolate

SpecIso == InitIso /\ [][NextIso]_vars

-----------------------------------------------------------------------------
(* Properties of the two-symbol cycle (SpecIso) *)

IsoRan == ~IsNone(isoIn) /\ cycle.outcome # "init"

\* the call got no data: it raised or it returned an empty frame
NoBars(resp) == ~resp.ok \/ resp.bars = << >>

NoCloses(resp) == ~resp.ok \/ resp.closes = << >>

\* sym reached the cache: both of its fetches in fetch_all answered
HasSnapshot(sym) == ~NoBars(Val(isoIn).feed1m[sym]) /\ ~NoBars(Val(isoIn).feed5m[sym])

\* one of the calls the cycle made for sym got no data
RetrievalFailed(sym) ==
    \/ NoBars(Val(isoIn).feed1m[sym])
    \/ NoBars(Val(isoIn).feed5m[sym])
    \/ HasSnapshot(sym) /\ NoCloses(Val(isoIn).ensureFeed[sym])
    \/ HasSnapshot(sym) /\ NoCloses(Val(isoIn).dailyFeed[sym])

\* no signal of the cycle and no delivered message is about sym
Removed(sym) ==
    /\ \A i \in 1..Len(cycle.signals) : cycle.signals[i].symbol # sym
    /\ \A i \in 1..Len(delivered) : delivered[i][2] # sym

\* what a state of the disk and the chat holds about sym
SymbolPart(st, sym) ==
    LET IsSym(r) == r.symbol = sym
        KeyIsSym(k) == k[2] = sym
        LedgerIsSym(r) == Cell(FileHeader(st.sentFile), r, "symbol") = sym
        HistIsSym(r) == Cell(FileHeader(st.histFile), r, "symbol") = sym
    IN  [cache |-> IF IsNone(st.cacheFile) THEN << >> ELSE SelectSeq(Val(st.cacheFile), IsSym),
         ledger |-> SelectSeq(FileRows(st.sentFile), LedgerIsSym),
         history |-> SelectSeq(FileRows(st.histFile), HistIsSym),
         delivered |-> SelectSeq(st.delivered, KeyIsSym)]

\* the same invocation with sym as the only symbol
AloneRun(sym) ==
    main(Files(None, None, None, << >>, None, InitCycle), 1, ClockTimes[1],
         [Val(isoIn) EXCEPT !.syms = [ok |-> TRUE, list |-> <<sym>>]])

\* every symbol ends in the cache, the ledger, the history and the chat as it does when
\* it is the only symbol of the cycle
ProcessedAsAlone ==
    \A sym \in SeqRange(IsoSymbols) :
        SymbolPart(CurrentFiles, sym) = SymbolPart(AloneRun(sym), sym)

\* C18: the cycle runs to completion; a symbol for which the opening-range fetch, the
\* breakout fetch or a previous-close fetch raised or came back empty gives no signal
\* and no message, and every symbol is processed as if it were alone in the cycle.
C18_FailureRemovesOnlyThatSymbol ==
    IsoRan =>
        /\ cycle.outcome \in {"nodata", "nosignals", "sent"}
        /\ ProcessedAsAlone
        /\ \A sym \in SeqRange(IsoSymbols) : RetrievalFailed(sym) => Removed(sym)

-----------------------------------------------------------------------------
(* The cycles of one session with a process that can die inside run_cycle: before the
   send, between the send and append_sent_log, or between append_sent_log and
   append_history. *)

CrashPoints == {"before_send", "after_send", "after_ledger"}

\* the disk and the chat when the process dies at point; after is where the cycle
\* would have ended
run_cycle_crashed(st, after, today, point) ==
    LET ls == load_sent_log(st.sentFile, today)
        cyc == CycleRecord("crashed", after.cycle.signals, after.cycle.seen, after.cycle.new)
    IN  IF point = "before_send"
        THEN Files(after.cacheFile, ls.file, st.histFile, st.delivered, st.fallbackFile, cyc)
        ELSE IF point = "after_send"
        THEN Files(after.cacheFile, ls.file, st.histFile, after.delivered, st.fallbackFile, cyc)
        ELSE Files(after.cacheFile, after.sentFile, st.histFile, after.delivered,
                   st.fallbackFile, cyc)

CrashInstall(in, point) ==
    /\ main(CurrentFiles, day, now, in).cycle.outcome = "sent"
    /\ MainInstall(run_cycle_crashed(CurrentFiles, main(CurrentFiles, day, now, in), day, point))

CrashEvaluate(in, rowSyms) ==
    \E fd \in [rowSyms -> DailyFeeds] : \E point \in CrashPoints :
        CrashInstall([in EXCEPT !.dailyFeed = fd], point)

CrashLoad(in, lo) ==
    CrashEvaluate(in, IF ~IsNone(lo.df) THEN RowSymbols(Val(lo.df)) ELSE {})

CrashFetch(syms, f1, f5, rowSyms) ==
    \E fe \in {[sym \in rowSyms |-> e] : e \in EnsureFeeds} :
        CrashLoad(Inputs(syms, f1, f5, fe, << >>,
                         ConfigOf({"telegram_token", "telegram_chat_id"}), TRUE),
                  load_opening_df(cacheFile, day, now, syms, f1, f5, fe))

\* one invocation of main() that gets as far as the send and dies
Crash ==
    /\ InMarketHours(now)
    /\ \E syms \in (IF ~CacheIsFresh(cacheFile, day) /\ InFetchWindow(now)
                    THEN {[ok |-> TRUE, list |-> <<"A", "B">>]} ELSE {NoSymbols}) :
       \E f1 \in FeedChoices(SeqRange(syms.list)) :
       \E f5 \in [SeqRange(syms.list) -> FiveFeeds] :
            CrashFetch(syms, f1, f5, RowSymbols(fetch_all(syms.list, f1, f5)))

\* the clock within one session
TickSameDay == ClockIndex < Len(ClockTimes) /\ Tick

NextCrash == Main \/ TickSameDay \/ Crash

SpecCrash == Init /\ [][NextCrash]_vars

-----------------------------------------------------------------------------
(* Properties of the cycle with crashes (SpecCrash) *)

\* C22: once a cycle of the day has run to its end after a crash, no key has been
\* delivered twice and every key delivered that day has its row in the history.
C22_CrashNeitherDuplicatesNorDrops ==
    (cycle.outcome \in {"sent", "allsent"} /\ cycle.date = day) =>
        /\ \A i, j \in 1..Len(delivered) : delivered[i] = delivered[j] => i = j
        /\ DeliveredOn(day) \subseteq KeysOn(histFile, day)

-----------------------------------------------------------------------------
(* Overlapping cycles of one session: an invocation runs run_cycle up to
   filter_already_sent, and sends and records later; another invocation may start in
   between.  Nothing in main.py keeps two invocations apart. *)

MaxOverlap == 2

\* the locals of an invocation that has filtered its batch and not sent it yet
InFlightCycle(today, now_t, signals, seen, new_signals) ==
    [date |-> today, time |-> now_t, signals |-> signals, seen |-> seen, new |-> new_signals]

\* run_cycle up to the batch to send: the cache and the ledger are as load_opening_df
\* and load_sent_log leave them
BeginInstall(in) ==
    /\ main(CurrentFiles, day, now, in).cycle.outcome = "sent"
    /\ cacheFile' = main(CurrentFiles, day, now, in).cacheFile
    /\ sentFile' = load_sent_log(sentFile, day).file
    /\ inFlight' = Append(inFlight,
                          InFlightCycle(day, now,
                                        main(CurrentFiles, day, now, in).cycle.signals,
                                        main(CurrentFiles, day, now, in).cycle.seen,
                                        main(CurrentFiles, day, now, in).cycle.new))
    /\ UNCHANGED <<day, now, histFile, delivered, fallbackFile, cycle, evalRow, evalLog,
                   orData, orResult, mergeLog, tradeFile, forward, report, isoIn>>

BeginEvaluate(in, rowSyms) ==
    \E fd \in [rowSyms -> DailyFeeds] : BeginInstall([in EXCEPT !.dailyFeed = fd])

BeginLoad(in, lo) ==
    BeginEvaluate(in, IF ~IsNone(lo.df) THEN RowSymbols(Val(lo.df)) ELSE {})

BeginFetch(syms, f1, f5, rowSyms) ==
    \E fe \in {[sym \in rowSyms |-> e] : e \in EnsureFeeds} :
        BeginLoad(Inputs(syms, f1, f5, fe, << >>,
                         ConfigOf({"telegram_token", "telegram_chat_id"}), TRUE),
                  load_opening_df(cacheFile, day, now, syms, f1, f5, fe))

Begin ==
    /\ InMarketHours(now)
    /\ Len(inFlight) < MaxOverlap
    /\ \E syms \in (IF ~CacheIsFresh(cacheFile, day) /\ InFetchWindow(now)
                    THEN {[ok |-> TRUE, list |-> <<"A", "B">>]} ELSE {NoSymbols}) :
       \E f1 \in FeedChoices(SeqRange(syms.list)) :
       \E f5 \in [SeqRange(syms.list) -> FiveFeeds] :
            BeginFetch(syms, f1, f5, RowSymbols(fetch_all(syms.list, f1, f5)))

\* the rest of run_cycle for the invocation at position i: the send, then the two
\* appends to the files as they are now
FinishCycle(i) ==
    run_cycle_record(CurrentFiles, inFlight[i].date, inFlight[i].time,
                     [file |-> cacheFile], inFlight[i].signals,
                     [seen |-> inFlight[i].seen, file |-> sentFile], inFlight[i].new,
                     [ok |-> TRUE, backup |-> fallbackFile])

Finish ==
    \E i \in 1..Len(inFlight) :
        /\ Len(FinishCycle(i).delivered) <= MaxSent + MaxOverlap
        /\ Install(FinishCycle(i))
        /\ inFlight' = SubSeq(inFlight, 1, i - 1) \o SubSeq(inFlight, i + 1, Len(inFlight))
        /\ UNCHANGED <<day, now, evalRow, evalLog, orData, orResult, mergeLog,
                       tradeFile, forward, report, isoIn>>

NextOverlap == Begin \/ Finish \/ TickSameDay

SpecOverlap == Init /\ [][NextOverlap]_vars

-----------------------------------------------------------------------------
(* Properties of overlapping cycles (SpecOverlap) *)

\* C23: whatever the interleaving of the invocations, no key is delivered twice and
\* neither the ledger nor the history holds two rows with one key.
C23_OverlapStillSerialized ==
    /\ \A i, j \in 1..Len(delivered) : delivered[i] = delivered[j] => i = j
    /\ OneRowPerKey(sentFile)
    /\ OneRowPerKey(histFile)

-----------------------------------------------------------------------------
(* The merge run again: a history and a list of today's artifacts, merged once and then
   merged a second time with the same artifacts. *)

MaxMerges == 2

\* the history of another run whose first signal carries another previous close
OtherRunRevised ==
    OtherRunHistory(<<DictUpdate(OtherRunSignals[1], [prev_close |-> 49])>>, FetchEnd)

RemergeArtifacts ==
    {OtherRunHistory(b, t) : b \in OtherRunBatches, t \in OtherRunTimes}
        \cup {OtherRunRevised}

RemergeLists == UNION {[1..n -> RemergeArtifacts] : n \in 0..MaxArtifacts}

\* the working copy's history: none, what run_cycle wrote, that merged, and that
\* merged with rows a 10:00 cycle appended afterwards
RemergeStarts ==
    LET HistRow(sig) == hist_row(sig, 1, MergeClock)
        Written == {OtherRunHistory(b, t) : b \in OtherRunBatches, t \in OtherRunTimes}
        Merged == {merge_main(None, <<w>>) : w \in Written}
    IN  {None} \cup Written \cup Merged
            \cup {append_history(m, MapSeq(b, HistRow)) : m \in Merged, b \in OtherRunBatches}

InitRemerge ==
    /\ day = 1
    /\ now = MergeClock
    /\ cacheFile = None
    /\ sentFile = None
    /\ histFile \in RemergeStarts
    /\ delivered = << >>
    /\ fallbackFile = None
    /\ cycle = InitCycle
    /\ evalRow = None
    /\ evalLog = << >>
    /\ orData = None
    /\ orResult = None
    /\ mergeLog \in {Some([before |-> None, artifacts |-> a, merges |-> 0]) : a \in RemergeLists}
    /\ tradeFile = None
    /\ forward = None
    /\ report = None
    /\ isoIn = None
    /\ inFlight = << >>

\* one run of merge-backtests.py with the artifacts of the day
Remerge ==
    /\ ~IsNone(mergeLog)
    /\ Val(mergeLog).merges < MaxMerges
    /\ histFile' = merge_main(histFile, Val(mergeLog).artifacts)
    /\ mergeLog' = Some([before |-> histFile, artifacts |-> Val(mergeLog).artifacts,
                         merges |-> Val(mergeLog).merges + 1])
    /\ UNCHANGED <<day, now, cacheFile, sentFile, delivered, fallbackFile, cycle,
                   evalRow, evalLog, orData, orResult, tradeFile, forward, report, isoIn,
                   inFlight>>

NextRemerge == Remerge

SpecRemerge == InitRemerge /\ [][NextRemerge]_vars

-----------------------------------------------------------------------------
(* Properties of the repeated merge (SpecRemerge) *)

\* row i of a file on the columns the merge deduplicates by
MergeKey(file, i) ==
    [c \in SeqRange(DedupeCols) |-> Cell(FileHeader(file), FileRows(file)[i], c)]

\* C29: a second merge of the same artifacts leaves the history as the first merge
\* left it; every merge keeps the rows the history had, first and unchanged, and adds
\* no row that equals an earlier row on (date, time, symbol, direction, entry_price,
\* ORH, ORL).
C29_MergeIsIdempotent ==
    (~IsNone(mergeLog) /\ Val(mergeLog).merges >= 1) =>
        /\ Val(mergeLog).merges >= 2 => histFile = Val(mergeLog).before
        /\ RowsKept(Val(mergeLog).before, histFile)
        /\ \A i \in 1..Len(FileRows(histFile)) :
                i > Len(FileRows(Val(mergeLog).before)) =>
                    \A j \in 1..(i - 1) : MergeKey(histFile, j) # MergeKey(histFile, i)

\* twice merged, with an artifact row that equals a row of the history on the key and
\* carries another previous close
C29_Witness ==
    /\ ~IsNone(mergeLog)
    /\ Val(mergeLog).merges = 2
    /\ histFile = Val(mergeLog).before
    /\ \E n \in 1..Len(Val(mergeLog).artifacts) :
       \E r \in 1..Len(FileRows(Val(mergeLog).artifacts[n])) :
       \E i \in 1..Len(FileRows(histFile)) :
            /\ RowKey(Val(mergeLog).artifacts[n], r) = RowKey(histFile, i)
            /\ Cell(FileHeader(Val(mergeLog).artifacts[n]),
                    FileRows(Val(mergeLog).artifacts[n])[r], "time")
                    = Cell(FileHeader(histFile), FileRows(histFile)[i], "time")
            /\ Cell(FileHeader(Val(mergeLog).artifacts[n]),
                    FileRows(Val(mergeLog).artifacts[n])[r], "prev_close")
                    # Cell(FileHeader(histFile), FileRows(histFile)[i], "prev_close")

====
